---- MODULE Spec2Model ----
(***************************************************************************)
(* A model of jpeg_tomogram.py: packing an MRC volume into a .jpgs stack   *)
(* of length-prefixed JPEG slices, unpacking it again, and the batch       *)
(* driver main() that runs one conversion job per input file in a pool.    *)
(*                                                                         *)
(* Abstractions.  A slice is one sample (the 2D grid is collapsed to a     *)
(* point; slice order, framing and arithmetic do not depend on the grid).  *)
(* The JPEG codec (PIL) is an external collaborator: Encode/Decode model   *)
(* a deterministic lossy codec whose output length depends on the content. *)
(* File names are sequences of atoms ("a", ".", "mrc", "_JPG", "80");      *)
(* string operations act on atoms exactly as the Python ones act on the    *)
(* characters, because no atom contains a separator of another operation.  *)
(* Normalisation is computed in exact arithmetic (the code uses float32).  *)
(***************************************************************************)
EXTENDS Integers, Sequences, FiniteSets, TLC

VARIABLES
    fs,         \* the filesystem: path -> [kind, data]
    cores,      \* resolved worker count handed to the job / to main's Pool
    quiet,      \* the quiet flag of a directly called job
    p_args,     \* mrc_to_jpeg_stack: [mrc, out, quality]
    p_pc,       \* Pending, SlicesDispatched, Done, Failed
    p_raw,      \* mrc.data as read at open
    p_data,     \* the normalised uint8 slices
    p_stack,    \* jpeg_stack_filename after with_suffix('.jpgs')
    p_task,     \* per slice: pending, running, done
    p_tmp,      \* pack tmpdir: i -> bytes of '{i}.jpg' (<<>>: not yet written)
    u_args,     \* jpeg_stack_to_mrc: [jpgs, mrc]
    u_pc,       \* Pending, SlicesDispatched, Done, Failed
    u_out,      \* mrc_filename after the header lookup
    u_tmp,      \* unpack tmpdir: i -> bytes of '{i}.jpg'
    u_task,     \* per payload: pending, running, done
    u_images,   \* the list built from pool.imap / the serial loop
    u_ndone,    \* number of load_image results received so far
    h_ooo,      \* history: a pool task finished before a task of lower index
    m_mode,     \* main: pack / unpack
    m_argv,     \* main: args.input_paths
    m_outdir,   \* main: args.output_path ("" when not given)
    m_pc,       \* main: Start, Running, Report, Exit0, ExitNoMatch, Crashed
    m_inputs,   \* main: input_paths
    m_jobs,     \* main: pack_args / unpack_args
    m_state,    \* main: per job queued, running, done, failed, killed
    m_dest,     \* main: per unpack job, mrc_filename after its header lookup
    m_next,     \* main: number of results list() has consumed from pool.imap
    s_u,        \* a decoded unsigned 8-bit sample
    s_v,        \* a second decoded sample
    s_pc,       \* Decoded, Stored
    s_out       \* the int8 values stored for s_u and s_v

jobVars == <<cores, quiet, p_args, p_pc, p_raw, p_data, p_stack, p_task, p_tmp,
             u_args, u_pc, u_out, u_tmp, u_task, u_images, u_ndone, h_ooo>>
mainVars == <<m_mode, m_argv, m_outdir, m_pc, m_inputs, m_jobs, m_state, m_dest,
              m_next>>
sampleVars == <<s_u, s_v, s_pc, s_out>>
vars == <<fs, jobVars, mainVars, sampleVars>>

(***************************************************************************)
(* Bounds of the model.                                                    *)
(***************************************************************************)
MaxDepth == 2
MaxSample == 2
MaxCores == 2
MaxArgs == 2

(***************************************************************************)
(* Program constants.                                                      *)
(***************************************************************************)
DefaultQuality == 80
Offset == 128
U8Mod == 256
SOI == 216
EOI == 217
DecodeError == 0 - 1

Min(a, b) == IF a < b THEN a ELSE b

RECURSIVE Flatten(_)
Flatten(ss) == IF ss = <<>> THEN <<>> ELSE Head(ss) \o Flatten(Tail(ss))

SeqMin(s) == CHOOSE x \in {s[i] : i \in 1..Len(s)} : \A j \in 1..Len(s) : x <= s[j]
SeqMax(s) == CHOOSE x \in {s[i] : i \in 1..Len(s)} : \A j \in 1..Len(s) : x >= s[j]

(***************************************************************************)
(* Path operations.                                                        *)
(***************************************************************************)
Dot == "."
LastDot(name) == IF \E i \in 1..Len(name) : name[i] = Dot
                 THEN CHOOSE i \in 1..Len(name) :
                        name[i] = Dot /\ \A j \in (i+1)..Len(name) : name[j] # Dot
                 ELSE 0

\* pathlib: PurePath.suffix is name[i:] when 0 < i < len(name) - 1, else ''
HasSuffix(name) == LastDot(name) > 1 /\ LastDot(name) < Len(name)
Suffix(name) == IF HasSuffix(name) THEN SubSeq(name, LastDot(name), Len(name)) ELSE <<>>
Stem(name) == IF HasSuffix(name) THEN SubSeq(name, 1, LastDot(name) - 1) ELSE name
WithSuffix(name, suf) == Stem(name) \o suf

\* os.path.splitext(...)[0]: cut at the last dot unless only dots precede it
SplitextRoot(name) ==
    LET i == LastDot(name)
    IN IF i > 0 /\ (\E j \in 1..(i-1) : name[j] # Dot) THEN SubSeq(name, 1, i - 1) ELSE name

HeaderTail == <<"_header", Dot, "npy">>
JpgsSuffix == <<Dot, "jpgs">>
MrcSuffix == <<Dot, "mrc">>
RecSuffix == <<Dot, "rec">>
QualityTag(q) == <<"_JPG", ToString(q)>>

P(d, n) == [dir |-> d, name |-> n]
Exists(f, p) == p \in DOMAIN f
WriteFile(f, p, k, d) == (p :> [kind |-> k, data |-> d]) @@ f

(***************************************************************************)
(* Bytes.                                                                  *)
(***************************************************************************)
\* int.to_bytes(4, 'little')
ToBytes4(n) == <<n % 256, (n \div 256) % 256, (n \div 65536) % 256, (n \div 16777216) % 256>>

\* int.from_bytes(b, 'little') of the 0..4 bytes a read returned
RECURSIVE FromBytes(_)
FromBytes(b) == IF b = <<>> THEN 0 ELSE Head(b) + 256 * FromBytes(Tail(b))

\* f.read(n) at offset pos: at most n bytes, fewer at the end of the file
Read(bytes, pos, n) == SubSeq(bytes, pos + 1, Min(pos + n, Len(bytes)))

(***************************************************************************)
(* The codec (PIL): Image.save(format='JPEG', quality) and Image.open/load *)
(***************************************************************************)
QuantStep(q) == ((100 - q) \div 10) + 1
Quantise(u, q) == (u \div QuantStep(q)) * QuantStep(q)
Encode(u, q) ==
    LET v == Quantise(u, q)
    IN <<SOI>> \o (IF v >= Offset THEN <<v, v>> ELSE <<v>>) \o <<EOI>>
Decode(b) == IF Len(b) >= 3 /\ b[1] = SOI /\ b[Len(b)] = EOI THEN b[2] ELSE DecodeError

\* save_image: the file '{i}.jpg' holds a 4-byte length and then the JPEG
SaveImageRaw(u, q) == Encode(u, q)
SaveImage(u, q) ==
    LET img_data == Encode(u, q) IN ToBytes4(Len(img_data)) \o img_data

\* load_image: read the 4-byte length, then that many bytes, and decode them
LoadImage(file) ==
    LET head == Read(file, 0, 4)
        img_size == FromBytes(head)
    IN Decode(Read(file, Len(head), img_size))

(***************************************************************************)
(* Normalisation (pack) and its counterpart (unpack).                      *)
(***************************************************************************)
Degenerate(data) == SeqMin(data) = SeqMax(data)

\* std = 0 makes every sample NaN; astype(uint8) of NaN is whatever the build yields
NaNCast == {0, 255}

Normalise(data, nan) ==
    IF Degenerate(data)
    THEN [i \in 1..Len(data) |-> nan]
    ELSE [i \in 1..Len(data) |->
            (255 * (data[i] - SeqMin(data))) \div (SeqMax(data) - SeqMin(data))]

\* data - 128 on a uint8 array stays uint8 and wraps
SubU8(u) == (u - Offset) % U8Mod
\* astype(np.int8) reinterprets the byte as two's complement
AsInt8Identity(b) == b
AsInt8(b) == IF b >= Offset THEN b - U8Mod ELSE b
ToSigned(u) == AsInt8(SubU8(u))

(***************************************************************************)
(* The container.                                                          *)
(***************************************************************************)
\* mrc_to_jpeg_stack, the write stage: count, then per file its length and bytes
ContainerBytes(tmp) ==
    ToBytes4(Len(tmp)) \o
    Flatten([i \in 1..Len(tmp) |-> ToBytes4(Len(tmp[i])) \o tmp[i]])

\* the stack mrc_to_jpeg_stack writes for normalised slices `data`
PackedBytes(data, q) == ContainerBytes([i \in 1..Len(data) |-> SaveImage(data[i], q)])

\* jpeg_stack_to_mrc, the extract loop: read a length, then that many bytes
RECURSIVE ReadEntries(_, _, _)
ReadEntries(bytes, pos, k) ==
    IF k = 0 THEN <<>>
    ELSE LET lenb == Read(bytes, pos, 4)
             img_size == FromBytes(lenb)
             img_data == Read(bytes, pos + Len(lenb), img_size)
         IN <<img_data>> \o ReadEntries(bytes, pos + Len(lenb) + Len(img_data), k - 1)

ReadStage(bytes) ==
    LET head == Read(bytes, 0, 4)
    IN ReadEntries(bytes, Len(head), FromBytes(head))


(***************************************************************************)
(* Names derived by main and by the two conversion functions.              *)
(***************************************************************************)
\* main, pack: (output_path or f.parent) / (f.stem + '_JPG<q>')
MainPackOut(f, outdir, q) ==
    P(IF outdir = "" THEN f.dir ELSE outdir, Stem(f.name) \o QualityTag(q))

\* str.replace('_JPG<q>', '_fromJPG<q>') on the stem
ReplaceTag(name, q) ==
    [i \in 1..Len(name) |->
        IF name[i] = "_JPG" /\ i < Len(name) /\ name[i+1] = ToString(q)
        THEN "_fromJPG" ELSE name[i]]

\* main, unpack: (output_path or f.parent) / f.stem.replace(...)
MainUnpackOut(f, outdir, q) ==
    P(IF outdir = "" THEN f.dir ELSE outdir, ReplaceTag(Stem(f.name), q))

\* mrc_to_jpeg_stack: write_header(mrc, jpeg_stack_filename + '_header.npy')
PackHeaderPath(out) == P(out.dir, out.name \o HeaderTail)

\* mrc_to_jpeg_stack: an empty basename becomes 'output', then with_suffix('.jpgs')
PackStackPath(out) ==
    LET named == IF out.name = <<>> THEN <<"output">> ELSE out.name
    IN P(out.dir, WithSuffix(named, JpgsSuffix))

IsPrefix(a, b) == Len(a) <= Len(b) /\ SubSeq(b, 1, Len(a)) = a
IsTail(a, b) == Len(a) <= Len(b) /\ SubSeq(b, Len(b) - Len(a) + 1, Len(b)) = a

\* Path('.').glob(f"{base_name}*_header.npy")
MatchingHeaders(f, jpgs) ==
    LET base == SplitextRoot(jpgs.name)
    IN {h \in DOMAIN f :
          /\ h.dir = jpgs.dir
          /\ Len(h.name) >= Len(base) + Len(HeaderTail)
          /\ IsPrefix(base, h.name)
          /\ IsTail(HeaderTail, h.name)}

\* header_file.rsplit('_JPG', 1)[0]
RSplitJPG(name) ==
    IF \E i \in 1..Len(name) : name[i] = "_JPG"
    THEN SubSeq(name, 1,
           (CHOOSE i \in 1..Len(name) :
               name[i] = "_JPG" /\ \A j \in (i+1)..Len(name) : name[j] # "_JPG") - 1)
    ELSE name

\* jpeg_stack_to_mrc: the output name is rebuilt from the header found, or from the stack
UnpackOutFromHeader(jpgs, mrc_filename, hdr) == P(hdr.dir, RSplitJPG(hdr.name) \o MrcSuffix)
UnpackOutNoHeader(jpgs, mrc_filename) == P(jpgs.dir, SplitextRoot(jpgs.name) \o MrcSuffix)

NoPath == P("", <<>>)
NoImage == 0 - 2

AllDone(task) == \A i \in 1..Len(task) : task[i] = "done"
Running(task) == Cardinality({i \in 1..Len(task) : task[i] = "running"})
HasPending(task) == \E i \in 1..Len(task) : task[i] = "pending"
NextPending(task) ==
    CHOOSE i \in 1..Len(task) :
        task[i] = "pending" /\ \A j \in 1..(i-1) : task[j] # "pending"

\* pool.imap hands results back in task order; imap_unordered in completion order
ImapUnorderedSlot(i, ndone) == ndone + 1
ImapSlot(i, ndone) == i

(***************************************************************************)
(* One pack job and one unpack job, called directly.                       *)
(***************************************************************************)
Volumes == UNION {[1..d -> 0..MaxSample] : d \in 1..MaxDepth}
SrcFiles == {P("d1", <<"a">> \o MrcSuffix), P("d1", <<"t", Dot, "v1">> \o MrcSuffix)}
MissingSrc == P("d1", <<"gone">> \o MrcSuffix)

PackArgs ==
    {[mrc |-> f, out |-> MainPackOut(f, "", DefaultQuality), quality |-> DefaultQuality] :
        f \in SrcFiles \cup {MissingSrc}}
    \cup {[mrc |-> P("d1", <<"a">> \o MrcSuffix), out |-> P("d2", <<>>),
           quality |-> DefaultQuality]}

mainIdle ==
    /\ m_mode = "pack" /\ m_argv = <<>> /\ m_outdir = "" /\ m_pc = "Idle"
    /\ m_inputs = <<>> /\ m_jobs = <<>> /\ m_state = <<>> /\ m_dest = <<>>
    /\ m_next = 0
sampleIdle == s_u = 0 /\ s_v = 0 /\ s_pc = "Idle" /\ s_out = <<>>
jobIdle ==
    /\ cores = 1 /\ quiet = FALSE
    /\ p_args = [mrc |-> NoPath, out |-> NoPath, quality |-> DefaultQuality]
    /\ p_pc = "Idle" /\ p_raw = <<>> /\ p_data = <<>> /\ p_stack = NoPath
    /\ p_task = <<>> /\ p_tmp = <<>>
    /\ u_args = [jpgs |-> NoPath, mrc |-> NoPath]
    /\ u_pc = "Idle" /\ u_out = NoPath /\ u_tmp = <<>> /\ u_task = <<>>
    /\ u_images = <<>> /\ u_ndone = 0 /\ h_ooo = FALSE

Init ==
    /\ \E v \in Volumes : fs = [f \in SrcFiles |-> [kind |-> "mrc", data |-> v]]
    /\ cores \in 1..MaxCores
    \* quiet only selects the loop header of the serial branch (line 187);
    \* with a pool it switches the progress bar alone
    /\ quiet \in (IF cores = 1 THEN BOOLEAN ELSE {FALSE})
    /\ p_args \in PackArgs
    /\ p_pc = "Pending" /\ p_raw = <<>> /\ p_data = <<>> /\ p_stack = NoPath
    /\ p_task = <<>> /\ p_tmp = <<>>
    /\ u_args = [jpgs |-> NoPath, mrc |-> NoPath]
    /\ u_pc = "Pending" /\ u_out = NoPath /\ u_tmp = <<>> /\ u_task = <<>>
    /\ u_images = <<>> /\ u_ndone = 0 /\ h_ooo = FALSE
    /\ mainIdle /\ sampleIdle

packRest == <<cores, quiet, p_args, u_args, u_pc, u_out, u_tmp, u_task, u_images, u_ndone,
              mainVars, sampleVars>>
Overtakes(task, i) == \E j \in 1..(i-1) : task[j] # "done"
unpackRest == <<cores, quiet, p_args, p_pc, p_raw, p_data, p_stack, p_task, p_tmp,
                mainVars, sampleVars>>

\* mrcfile.open raises: the input is missing or no MRC file
PackOpenError ==
    /\ p_pc = "Pending"
    /\ ~(Exists(fs, p_args.mrc) /\ fs[p_args.mrc].kind = "mrc")
    /\ p_pc' = "Failed"
    /\ UNCHANGED <<fs, p_raw, p_data, p_stack, p_task, p_tmp, h_ooo, packRest>>

\* lines 162-177: read, normalise over the whole volume, write the header, name the stack
PackOpen ==
    /\ p_pc = "Pending"
    /\ Exists(fs, p_args.mrc) /\ fs[p_args.mrc].kind = "mrc"
    /\ LET data == fs[p_args.mrc].data
       IN \E nan \in (IF Degenerate(data) THEN NaNCast ELSE {0}) :
            /\ p_raw' = data
            /\ p_data' = Normalise(data, nan)
            /\ fs' = WriteFile(fs, PackHeaderPath(p_args.out), "npy", <<Len(data)>>)
            /\ p_stack' = PackStackPath(p_args.out)
            /\ p_task' = [i \in 1..Len(data) |-> "pending"]
            /\ p_tmp' = [i \in 1..Len(data) |-> <<>>]
    /\ p_pc' = "SlicesDispatched"
    /\ UNCHANGED <<h_ooo, packRest>>

\* lines 181-185: a pool worker takes the next task of pool.imap
PackPoolStart ==
    /\ p_pc = "SlicesDispatched" /\ cores > 1
    /\ HasPending(p_task) /\ Running(p_task) < cores
    /\ p_task' = [p_task EXCEPT ![NextPending(p_task)] = "running"]
    /\ UNCHANGED <<fs, p_pc, p_raw, p_data, p_stack, p_tmp, h_ooo, packRest>>

\* a pool worker returns from save_image: '{i}.jpg' is written
PackPoolFinish(i) ==
    /\ p_pc = "SlicesDispatched" /\ cores > 1
    /\ p_task[i] = "running"
    /\ p_tmp' = [p_tmp EXCEPT ![i] = SaveImage(p_data[i], p_args.quality)]
    /\ p_task' = [p_task EXCEPT ![i] = "done"]
    /\ h_ooo' = (h_ooo \/ Overtakes(p_task, i))
    /\ UNCHANGED <<fs, p_pc, p_raw, p_data, p_stack, packRest>>

\* lines 187-189, not quiet: the serial loop saves slice i
PackSerialEncode ==
    /\ p_pc = "SlicesDispatched" /\ cores <= 1 /\ ~quiet
    /\ HasPending(p_task)
    /\ LET i == NextPending(p_task)
       IN /\ p_tmp' = [p_tmp EXCEPT ![i] = SaveImage(p_data[i], p_args.quality)]
          /\ p_task' = [p_task EXCEPT ![i] = "done"]
    /\ UNCHANGED <<fs, p_pc, p_raw, p_data, p_stack, h_ooo, packRest>>

\* line 187, quiet: 'for i, slice in range(len(data))' cannot unpack an int
PackSerialQuietError ==
    /\ p_pc = "SlicesDispatched" /\ cores <= 1 /\ quiet
    /\ Len(p_data) > 0
    /\ p_pc' = "Failed"
    /\ p_tmp' = <<>>
    /\ UNCHANGED <<fs, p_raw, p_data, p_stack, p_task, h_ooo, packRest>>

\* lines 191-201: every slice is saved; write the stack from the files in index order
PackWrite ==
    /\ p_pc = "SlicesDispatched" /\ AllDone(p_task)
    /\ fs' = WriteFile(fs, p_stack, "jpgs", ContainerBytes(p_tmp))
    /\ p_tmp' = <<>>
    /\ p_pc' = "Done"
    /\ UNCHANGED <<p_raw, p_data, p_stack, p_task, h_ooo, packRest>>

\* the lengths a written stack can be cut to
CutPoints ==
    IF p_pc = "Done" /\ Exists(fs, p_stack) THEN 0..(Len(fs[p_stack].data) - 1) ELSE {}

\* the stack loses its tail before it is unpacked (a broken copy or download);
\* the environment either cuts the stack or drops the sidecar, once
Truncate(n) ==
    /\ p_pc = "Done" /\ u_pc = "Pending"
    /\ Exists(fs, PackHeaderPath(p_args.out))
    /\ fs[p_stack].data = PackedBytes(p_data, p_args.quality)
    /\ n \in CutPoints
    /\ fs' = WriteFile(fs, p_stack, "jpgs", SubSeq(fs[p_stack].data, 1, n))
    /\ UNCHANGED <<jobVars, mainVars, sampleVars>>

\* the header sidecar is not kept with the (intact) stack
RemoveSidecar ==
    /\ p_pc = "Done" /\ u_pc = "Pending"
    /\ fs[p_stack].data = PackedBytes(p_data, p_args.quality)
    /\ Exists(fs, PackHeaderPath(p_args.out))
    /\ fs' = [x \in (DOMAIN fs) \ {PackHeaderPath(p_args.out)} |-> fs[x]]
    /\ UNCHANGED <<jobVars, mainVars, sampleVars>>


\* lines 220-246: rebuild the output name, then extract every payload to '{i}.jpg'
UnpackOpen(outdir) ==
    /\ p_pc = "Done" /\ u_pc = "Pending"
    /\ Exists(fs, p_stack)
    /\ LET jpgs == p_stack
           arg == MainUnpackOut(jpgs, outdir, DefaultQuality)
           found == MatchingHeaders(fs, jpgs)
           files == ReadStage(fs[jpgs].data)
       IN /\ u_args' = [jpgs |-> jpgs, mrc |-> arg]
          /\ IF found # {}
             THEN \E hdr \in found : u_out' = UnpackOutFromHeader(jpgs, arg, hdr)
             ELSE u_out' = UnpackOutNoHeader(jpgs, arg)
          /\ u_tmp' = files
          /\ u_task' = [i \in 1..Len(files) |-> "pending"]
          /\ u_images' = [i \in 1..Len(files) |-> NoImage]
    /\ u_ndone' = 0
    /\ u_pc' = "SlicesDispatched"
    /\ UNCHANGED <<fs, h_ooo, unpackRest>>

\* lines 249-254: a pool worker takes the next task of pool.imap
UnpackPoolStart ==
    /\ u_pc = "SlicesDispatched" /\ cores > 1
    /\ HasPending(u_task) /\ Running(u_task) < cores
    /\ u_task' = [u_task EXCEPT ![NextPending(u_task)] = "running"]
    /\ UNCHANGED <<fs, u_args, u_pc, u_out, u_tmp, u_images, u_ndone, h_ooo, unpackRest>>

\* a pool worker returns from load_image with an image
UnpackPoolFinish(i) ==
    /\ u_pc = "SlicesDispatched" /\ cores > 1
    /\ u_task[i] = "running"
    /\ LoadImage(u_tmp[i]) # DecodeError
    /\ u_images' = [u_images EXCEPT ![ImapSlot(i, u_ndone)] = LoadImage(u_tmp[i])]
    /\ u_ndone' = u_ndone + 1
    /\ u_task' = [u_task EXCEPT ![i] = "done"]
    /\ h_ooo' = (h_ooo \/ Overtakes(u_task, i))
    /\ UNCHANGED <<fs, u_args, u_pc, u_out, u_tmp, unpackRest>>

\* lines 256-259: the serial loop appends the next image
UnpackSerialLoad ==
    /\ u_pc = "SlicesDispatched" /\ cores <= 1
    /\ HasPending(u_task)
    /\ LET i == NextPending(u_task)
       IN /\ LoadImage(u_tmp[i]) # DecodeError
          /\ u_images' = [u_images EXCEPT ![u_ndone + 1] = LoadImage(u_tmp[i])]
          /\ u_task' = [u_task EXCEPT ![i] = "done"]
    /\ u_ndone' = u_ndone + 1
    /\ UNCHANGED <<fs, u_args, u_pc, u_out, u_tmp, h_ooo, unpackRest>>

\* Image.open / img.load raises in load_image: the exception ends the job
UnpackDecodeError(i) ==
    /\ u_pc = "SlicesDispatched"
    /\ \/ cores > 1 /\ u_task[i] = "running"
       \/ cores <= 1 /\ HasPending(u_task) /\ i = NextPending(u_task)
    /\ LoadImage(u_tmp[i]) = DecodeError
    /\ u_pc' = "Failed"
    /\ u_tmp' = <<>>
    /\ UNCHANGED <<fs, u_args, u_out, u_task, u_images, u_ndone, h_ooo, unpackRest>>

\* lines 261-276: stack the images, subtract 128 as int8 and write the volume
UnpackWrite ==
    /\ u_pc = "SlicesDispatched" /\ AllDone(u_task)
    /\ Len(u_images) > 0
    /\ fs' = WriteFile(fs, u_out, "mrc", [i \in 1..Len(u_images) |-> ToSigned(u_images[i])])
    /\ u_tmp' = <<>>
    /\ u_pc' = "Done"
    /\ UNCHANGED <<u_args, u_out, u_task, u_images, u_ndone, h_ooo, unpackRest>>

\* no image at all: np.array([]) is 1-dimensional and mrc.set_data rejects it,
\* after mrcfile.new has already created the file
UnpackEmptyError ==
    /\ u_pc = "SlicesDispatched"
    /\ Len(u_images) = 0
    /\ fs' = WriteFile(fs, u_out, "mrc", <<>>)
    /\ u_tmp' = <<>>
    /\ u_pc' = "Failed"
    /\ UNCHANGED <<u_args, u_out, u_task, u_images, u_ndone, h_ooo, unpackRest>>

Next ==
    \/ PackOpenError
    \/ PackOpen
    \/ PackPoolStart
    \/ \E i \in 1..Len(p_task) : PackPoolFinish(i)
    \/ PackSerialEncode
    \/ PackSerialQuietError
    \/ PackWrite
    \/ \E n \in CutPoints : Truncate(n)
    \/ RemoveSidecar
    \/ \E outdir \in {"", "d2"} : UnpackOpen(outdir)
    \/ UnpackPoolStart
    \/ \E i \in 1..Len(u_task) : UnpackPoolFinish(i)
    \/ UnpackSerialLoad
    \/ \E i \in 1..Len(u_task) : UnpackDecodeError(i)
    \/ UnpackWrite
    \/ UnpackEmptyError

Spec == Init /\ [][Next]_vars


(***************************************************************************)
(* main(): input resolution, one job per input file, a pool of `cores`     *)
(* workers, results consumed in order by list(pool.imap(...)).             *)
(***************************************************************************)
VolA == <<0, 2>>
VolB == <<1, 0>>
StackA == PackedBytes(Normalise(VolA, 0), DefaultQuality)
\* a stack of two slices cut inside its second entry
StackCut == SubSeq(PackedBytes(Normalise(VolB, 0), DefaultQuality), 1, 18)

\* what each directory lists, in listing order
Listing(d) ==
    CASE d = "d1" -> << <<"a">> \o MrcSuffix, <<"a">> \o RecSuffix, <<"bad">> \o MrcSuffix >>
      [] d = "d2" -> << <<"t", Dot, "v1">> \o MrcSuffix, <<"t", Dot, "v2">> \o MrcSuffix >>
      [] d = "d3" -> << <<"a">> \o MrcSuffix,
                        <<"a">> \o QualityTag(DefaultQuality) \o JpgsSuffix,
                        <<"a">> \o QualityTag(DefaultQuality) \o HeaderTail,
                        <<"b">> \o QualityTag(DefaultQuality) \o JpgsSuffix >>
      [] OTHER -> <<>>
Dirs == {"d1", "d2", "d3"}

Content(name) ==
    IF name = <<"bad">> \o MrcSuffix THEN [kind |-> "junk", data |-> <<>>]
    ELSE IF name = <<"b">> \o QualityTag(DefaultQuality) \o JpgsSuffix
         THEN [kind |-> "jpgs", data |-> StackCut]
    ELSE IF Suffix(name) = JpgsSuffix THEN [kind |-> "jpgs", data |-> StackA]
    ELSE IF Suffix(name) = <<Dot, "npy">> THEN [kind |-> "npy", data |-> <<Len(VolA)>>]
    ELSE IF name[1] = "t" THEN [kind |-> "mrc", data |-> VolB]
    ELSE [kind |-> "mrc", data |-> VolA]

MainFiles == UNION {{P(d, Listing(d)[i]) : i \in 1..Len(Listing(d))} : d \in Dirs}
MainFs == [p \in MainFiles |-> Content(p.name)]

\* the command-line inputs: a path, a directory, or a wildcard pattern 'dir/*'
ArgUniverse ==
    {[kind |-> "path", dir |-> "d1", name |-> <<"a">> \o MrcSuffix],
     [kind |-> "path", dir |-> "d1", name |-> <<"a">> \o RecSuffix],
     [kind |-> "path", dir |-> "d1", name |-> <<"bad">> \o MrcSuffix],
     [kind |-> "dir", dir |-> "d2", name |-> <<>>],
     [kind |-> "dir", dir |-> "d3", name |-> <<>>],
     [kind |-> "path", dir |-> "d3", name |-> <<"a">> \o QualityTag(DefaultQuality) \o JpgsSuffix],
     [kind |-> "pattern", dir |-> "d3", name |-> <<"*">>]}

\* Path(dir).glob('*' + suffix)
GlobSuffix(d, suf) ==
    LET keep(n) == Suffix(n) = suf
        names == SelectSeq(Listing(d), keep)
    IN [i \in 1..Len(names) |-> P(d, names[i])]

\* Path().glob('dir/*') filtered by f.suffix in {'.mrc', '.rec'}
GlobVolumes(d) ==
    LET keep(n) == Suffix(n) \in {MrcSuffix, RecSuffix}
        names == SelectSeq(Listing(d), keep)
    IN [i \in 1..Len(names) |-> P(d, names[i])]

\* main, lines 345-362: what one command-line input contributes to input_paths
ResolveOne(mode, arg) ==
    IF arg.kind = "dir"
    THEN IF mode = "pack"
         THEN GlobSuffix(arg.dir, MrcSuffix) \o GlobSuffix(arg.dir, RecSuffix)
         ELSE GlobSuffix(arg.dir, JpgsSuffix)
    ELSE IF arg.kind = "pattern"
         THEN GlobVolumes(arg.dir)
         ELSE IF Suffix(arg.name) \in {MrcSuffix, RecSuffix}
              THEN <<P(arg.dir, arg.name)>>
              ELSE <<>>

ResolveInputs(mode, argv) == Flatten([i \in 1..Len(argv) |-> ResolveOne(mode, argv[i])])

\* the cores argument main passes to every job (lines 381 and 396)
JobCoresSliceFallback(num_files, c) == IF num_files = 1 THEN c ELSE 1
JobCores(num_files, c) == 1

\* main, lines 376-385 and 392-400: the argument tuple of one job
JobArgs(mode, f, outdir, q, num_files, c) ==
    [src |-> f,
     out |-> IF mode = "pack" THEN MainPackOut(f, outdir, q) ELSE MainUnpackOut(f, outdir, q),
     quality |-> q,
     cores |-> JobCores(num_files, c)]

ArgSeqs == UNION {[1..n -> ArgUniverse] : n \in 1..MaxArgs}

InitMain ==
    /\ fs = MainFs
    /\ cores \in 1..MaxCores
    /\ quiet = FALSE
    /\ p_args = [mrc |-> NoPath, out |-> NoPath, quality |-> DefaultQuality]
    /\ p_pc = "Idle" /\ p_raw = <<>> /\ p_data = <<>> /\ p_stack = NoPath
    /\ p_task = <<>> /\ p_tmp = <<>>
    /\ u_args = [jpgs |-> NoPath, mrc |-> NoPath]
    /\ u_pc = "Idle" /\ u_out = NoPath /\ u_tmp = <<>> /\ u_task = <<>>
    /\ u_images = <<>> /\ u_ndone = 0 /\ h_ooo = FALSE
    /\ m_mode \in {"pack", "unpack"}
    /\ m_argv \in ArgSeqs
    /\ m_outdir \in {"", "out"}
    /\ m_pc = "Start"
    /\ m_inputs = <<>> /\ m_jobs = <<>> /\ m_state = <<>> /\ m_dest = <<>>
    /\ m_next = 0
    /\ sampleIdle

mainRest == <<m_mode, m_argv, m_outdir, cores, quiet, p_args, p_pc, p_raw, p_data, p_stack,
              p_task, p_tmp, u_args, u_pc, u_out, u_tmp, u_task, u_images, u_ndone, h_ooo,
              sampleVars>>

\* lines 364-366: nothing resolved, sys.exit(1)
MainNoMatch ==
    /\ m_pc = "Start"
    /\ ResolveInputs(m_mode, m_argv) = <<>>
    /\ m_pc' = "ExitNoMatch"
    /\ UNCHANGED <<fs, m_inputs, m_jobs, m_state, m_dest, m_next, mainRest>>

\* lines 368-402: build one argument tuple per input and hand them to pool.imap
MainDispatch ==
    /\ m_pc = "Start"
    /\ LET inputs == ResolveInputs(m_mode, m_argv)
       IN /\ inputs # <<>>
          /\ m_inputs' = inputs
          /\ m_jobs' = [i \in 1..Len(inputs) |->
                          JobArgs(m_mode, inputs[i], m_outdir, DefaultQuality,
                                  Len(inputs), cores)]
          /\ m_state' = [i \in 1..Len(inputs) |-> "queued"]
          /\ m_dest' = [i \in 1..Len(inputs) |-> NoPath]
    /\ m_pc' = "Running"
    /\ UNCHANGED <<fs, m_next, mainRest>>

RunningJobs == Cardinality({i \in 1..Len(m_state) : m_state[i] = "running"})
NextQueued ==
    CHOOSE i \in 1..Len(m_state) :
        m_state[i] = "queued" /\ \A j \in 1..(i-1) : m_state[j] # "queued"
CanStart(i) ==
    /\ m_pc = "Running"
    /\ m_state[i] = "queued" /\ i = NextQueued
    /\ RunningJobs < cores
Readable(f, p, k) == Exists(f, p) /\ f[p].kind = k

\* a worker takes pack job i: lines 162-177, the header is written
PackJobOpen(i) ==
    /\ m_mode = "pack" /\ CanStart(i)
    /\ Readable(fs, m_jobs[i].src, "mrc")
    /\ fs' = WriteFile(fs, PackHeaderPath(m_jobs[i].out), "npy",
                       <<Len(fs[m_jobs[i].src].data)>>)
    /\ m_state' = [m_state EXCEPT ![i] = "running"]
    /\ UNCHANGED <<m_pc, m_inputs, m_jobs, m_dest, m_next, mainRest>>

\* a worker takes unpack job i: lines 220-246, the output name is rebuilt
UnpackJobOpen(i) ==
    /\ m_mode = "unpack" /\ CanStart(i)
    /\ Exists(fs, m_jobs[i].src)
    /\ LET found == MatchingHeaders(fs, m_jobs[i].src)
       IN IF found # {}
          THEN \E hdr \in found :
                 m_dest' = [m_dest EXCEPT
                              ![i] = UnpackOutFromHeader(m_jobs[i].src, m_jobs[i].out, hdr)]
          ELSE m_dest' = [m_dest EXCEPT
                            ![i] = UnpackOutNoHeader(m_jobs[i].src, m_jobs[i].out)]
    /\ m_state' = [m_state EXCEPT ![i] = "running"]
    /\ UNCHANGED <<fs, m_pc, m_inputs, m_jobs, m_next, mainRest>>

\* the input of job i cannot be opened: the job raises in its worker
JobOpenError(i) ==
    /\ CanStart(i)
    /\ \/ m_mode = "pack" /\ ~Readable(fs, m_jobs[i].src, "mrc")
       \/ m_mode = "unpack" /\ ~Exists(fs, m_jobs[i].src)
    /\ m_state' = [m_state EXCEPT ![i] = "failed"]
    /\ UNCHANGED <<fs, m_pc, m_inputs, m_jobs, m_dest, m_next, mainRest>>

\* pack job i returns: lines 179-201 with cores = 1, the stack is written
PackJobFinish(i) ==
    /\ m_mode = "pack" /\ m_pc = "Running" /\ m_state[i] = "running"
    /\ Readable(fs, m_jobs[i].src, "mrc")
    /\ \E nan \in (IF Degenerate(fs[m_jobs[i].src].data) THEN NaNCast ELSE {0}) :
         fs' = WriteFile(fs, PackStackPath(m_jobs[i].out), "jpgs",
                         PackedBytes(Normalise(fs[m_jobs[i].src].data, nan),
                                     m_jobs[i].quality))
    /\ m_state' = [m_state EXCEPT ![i] = "done"]
    /\ UNCHANGED <<m_pc, m_inputs, m_jobs, m_dest, m_next, mainRest>>

\* the images of a stack; a file that is no stack yields nothing decodable
Images(f, p) ==
    IF f[p].kind = "jpgs"
    THEN [k \in 1..Len(ReadStage(f[p].data)) |-> LoadImage(ReadStage(f[p].data)[k])]
    ELSE <<DecodeError>>
Decodable(f, p) ==
    Images(f, p) # <<>> /\ \A k \in 1..Len(Images(f, p)) : Images(f, p)[k] # DecodeError

\* unpack job i returns: lines 248-276 with cores = 1, the volume is written
UnpackJobFinish(i) ==
    /\ m_mode = "unpack" /\ m_pc = "Running" /\ m_state[i] = "running"
    /\ Decodable(fs, m_jobs[i].src)
    /\ fs' = WriteFile(fs, m_dest[i], "mrc",
                       [k \in 1..Len(Images(fs, m_jobs[i].src)) |->
                            ToSigned(Images(fs, m_jobs[i].src)[k])])
    /\ m_state' = [m_state EXCEPT ![i] = "done"]
    /\ UNCHANGED <<m_pc, m_inputs, m_jobs, m_dest, m_next, mainRest>>

\* unpack job i raises: load_image cannot decode a payload, or there is no
\* payload and mrc.set_data rejects the empty array after the file was created
UnpackJobError(i) ==
    /\ m_mode = "unpack" /\ m_pc = "Running" /\ m_state[i] = "running"
    /\ ~Decodable(fs, m_jobs[i].src)
    /\ fs' = IF Images(fs, m_jobs[i].src) = <<>>
             THEN WriteFile(fs, m_dest[i], "mrc", <<>>) ELSE fs
    /\ m_state' = [m_state EXCEPT ![i] = "failed"]
    /\ UNCHANGED <<m_pc, m_inputs, m_jobs, m_dest, m_next, mainRest>>

\* list(pool.imap(...)) receives the next result in input order
MainCollect ==
    /\ m_pc = "Running" /\ m_next < Len(m_jobs)
    /\ m_state[m_next + 1] = "done"
    /\ m_next' = m_next + 1
    /\ UNCHANGED <<fs, m_pc, m_inputs, m_jobs, m_state, m_dest, mainRest>>

\* the next result is an exception: it is re-raised in main, the with-block
\* terminates the pool (running workers are killed, queued jobs never start)
\* and the process ends with a traceback
MainRaise ==
    /\ m_pc = "Running" /\ m_next < Len(m_jobs)
    /\ m_state[m_next + 1] = "failed"
    /\ m_state' = [i \in 1..Len(m_state) |->
                     IF m_state[i] \in {"queued", "running"} THEN "killed" ELSE m_state[i]]
    /\ m_pc' = "Crashed"
    /\ UNCHANGED <<fs, m_inputs, m_jobs, m_dest, m_next, mainRest>>

\* report_compression_ratio(str(args.input_paths[0]), ...): getsize of a pattern
\* raises, and a directory without volumes gives a division by zero
ReportFails(arg) ==
    \/ arg.kind = "pattern"
    \/ arg.kind = "dir" /\ GlobSuffix(arg.dir, MrcSuffix) \o GlobSuffix(arg.dir, RecSuffix) = <<>>
    \/ arg.kind = "path" /\ ~Exists(fs, P(arg.dir, arg.name))

\* lines 388 and 404-410: every result is in
MainFinish ==
    /\ m_pc = "Running" /\ m_next = Len(m_jobs)
    /\ m_pc' = IF m_mode = "pack" /\ ReportFails(m_argv[1]) THEN "Crashed" ELSE "Exit0"
    /\ UNCHANGED <<fs, m_inputs, m_jobs, m_state, m_dest, m_next, mainRest>>

NextMain ==
    \/ MainNoMatch
    \/ MainDispatch
    \/ \E i \in 1..Len(m_state) : PackJobOpen(i)
    \/ \E i \in 1..Len(m_state) : UnpackJobOpen(i)
    \/ \E i \in 1..Len(m_state) : JobOpenError(i)
    \/ \E i \in 1..Len(m_state) : PackJobFinish(i)
    \/ \E i \in 1..Len(m_state) : UnpackJobFinish(i)
    \/ \E i \in 1..Len(m_state) : UnpackJobError(i)
    \/ MainCollect
    \/ MainRaise
    \/ MainFinish

SpecMain == InitMain /\ [][NextMain]_vars

(***************************************************************************)
(* The sample conversion of line 273 on its own, over every pair of        *)
(* decoded unsigned 8-bit samples.                                         *)
(***************************************************************************)
U8 == 0..(U8Mod - 1)

InitSample ==
    /\ fs = <<>>
    /\ jobIdle /\ mainIdle
    /\ s_u \in U8 /\ s_v \in U8
    /\ s_pc = "Decoded"
    /\ s_out = <<>>

\* line 273: mrc.set_data((data - 128).astype(np.int8))
StoreSamples ==
    /\ s_pc = "Decoded"
    /\ s_out' = <<ToSigned(s_u), ToSigned(s_v)>>
    /\ s_pc' = "Stored"
    /\ UNCHANGED <<fs, jobVars, mainVars, s_u, s_v>>

NextSample == StoreSamples

SpecSample == InitSample /\ [][NextSample]_vars

(***************************************************************************)
(* Properties of the conversion jobs (specification Spec).                 *)
(***************************************************************************)
PackWriteStep == p_pc = "SlicesDispatched" /\ p_pc' = "Done"

\* the stack as the container layout of the format description frames it:
\* count, then per slice the codec's byte count and the codec's bytes
CodecFramed(data, q) ==
    ToBytes4(Len(data)) \o
    Flatten([k \in 1..Len(data) |-> ToBytes4(Len(Encode(data[k], q))) \o Encode(data[k], q)])

\* the stack as the code frames it: each entry carries save_image's own length prefix
DoublyFramed(data, q) ==
    ToBytes4(Len(data)) \o
    Flatten([k \in 1..Len(data) |->
                ToBytes4(Len(Encode(data[k], q)) + 4)
                \o ToBytes4(Len(Encode(data[k], q)))
                \o Encode(data[k], q)])

\* a well-formed container: a full count and, for each counted entry, a full
\* length field and all the bytes it declares
RECURSIVE EntriesComplete(_, _, _)
EntriesComplete(bytes, pos, k) ==
    IF k = 0 THEN TRUE
    ELSE /\ pos + 4 <= Len(bytes)
         /\ pos + 4 + FromBytes(SubSeq(bytes, pos + 1, pos + 4)) <= Len(bytes)
         /\ EntriesComplete(bytes, pos + 4 + FromBytes(SubSeq(bytes, pos + 1, pos + 4)), k - 1)
Consistent(bytes) ==
    Len(bytes) >= 4 /\ EntriesComplete(bytes, 4, FromBytes(SubSeq(bytes, 1, 4)))

\* C1: whatever order the pool workers finish in, the k-th payload of the stack
\* just written is save_image's output for the k-th slice of the (normalised)
\* source volume, and the k-th slice of the unpacked volume is the decoding
\* (minus 128) of the k-th payload of the stack that was read.
C1_SliceOrder ==
    [][/\ PackWriteStep =>
            \E nan \in NaNCast :
                ReadStage(fs'[p_stack].data) =
                    [k \in 1..Len(p_raw) |->
                        SaveImage(Normalise(p_raw, nan)[k], p_args.quality)]
       /\ (u_pc = "SlicesDispatched" /\ u_pc' = "Done") =>
            fs'[u_out].data =
                [k \in 1..Len(ReadStage(fs[u_args.jpgs].data)) |->
                    ToSigned(LoadImage(ReadStage(fs[u_args.jpgs].data)[k]))]
      ]_vars

\* C1 witness: a volume with different slices went through pack and unpack with
\* pool workers that finished out of order
C1_Witness ==
    /\ u_pc = "Done" /\ h_ooo /\ cores > 1
    /\ Len(p_raw) > 1 /\ p_data[1] # p_data[2]
    /\ fs[u_out].data[1] # fs[u_out].data[2]

\* C2 (as written): each length field equals the byte count of the codec's
\* output and is followed by exactly those bytes
C2_LengthIsCodecLength ==
    [][PackWriteStep => fs'[p_stack].data = CodecFramed(p_data, p_args.quality)]_vars

\* C2 (amended): the stack is the 4-byte count, then per slice a 4-byte length
\* equal to the codec's byte count plus 4, then a second 4-byte little-endian
\* field holding the codec's byte count, then the codec's bytes
C2_DoubleLengthPrefix ==
    [][PackWriteStep => fs'[p_stack].data = DoublyFramed(p_data, p_args.quality)]_vars

\* C2 witness: a stack of two slices whose encodings differ in length is written
C2_Witness ==
    /\ p_pc = "Done" /\ u_pc = "Pending" /\ Len(p_data) = 2
    /\ Len(Encode(p_data[1], p_args.quality)) # Len(Encode(p_data[2], p_args.quality))
    /\ fs[p_stack].data = DoublyFramed(p_data, p_args.quality)

\* C4: a zero-variance volume never gets packed: the job does not complete and
\* no stack is written for it
C4_ZeroVarianceFails ==
    (p_raw # <<>> /\ Degenerate(p_raw)) => (p_pc # "Done" /\ ~Exists(fs, p_stack))

\* C5: once jpeg_stack_to_mrc has read a truncated stack the job has failed,
\* and no short or empty payload was handed on
C5_TruncatedReadFails ==
    (u_pc # "Pending" /\ ~Consistent(fs[u_args.jpgs].data)) =>
        (u_pc = "Failed" /\ u_tmp = <<>> /\ u_images = <<>>)

\* C6: the unpacked volume is written to the path given as mrc_filename, and
\* the source volume that was packed keeps its content
C6_WritesToArgument ==
    u_pc = "Done" =>
        /\ u_out = u_args.mrc
        /\ Exists(fs, u_args.mrc)
        /\ fs[p_args.mrc].data = p_raw


(***************************************************************************)
(* Properties of the batch driver (specification SpecMain).                *)
(***************************************************************************)
Terminated == m_pc \in {"Exit0", "Crashed"}
SomeJobFailed == \E i \in 1..Len(m_state) : m_state[i] = "failed"

\* C3: when the batch has ended, every job has either completed or failed on
\* its own (none was killed or left unstarted because a sibling failed), and
\* a failure gives a non-zero exit
C3_SiblingsComplete ==
    Terminated =>
        /\ \A j \in 1..Len(m_state) : m_state[j] \in {"done", "failed"}
        /\ SomeJobFailed => m_pc = "Crashed"

\* the existing .jpgs containers one command-line input names
NamedContainers(arg) ==
    IF arg.kind = "path"
    THEN {c \in {P(arg.dir, arg.name)} : c \in MainFiles /\ Suffix(c.name) = JpgsSuffix}
    ELSE {c \in MainFiles : c.dir = arg.dir /\ Suffix(c.name) = JpgsSuffix}

\* C7: in unpack mode every existing container named by an input (as a path,
\* by a wildcard or through a directory) is one of the resolved inputs, and
\* the 'no matching files' exit happens only when no input names a container
C7_UnpackResolvesContainers ==
    (m_mode = "unpack" /\ m_pc # "Start") =>
        /\ \A a \in 1..Len(m_argv) : \A c \in NamedContainers(m_argv[a]) :
              \E i \in 1..Len(m_inputs) : m_inputs[i] = c
        /\ m_pc = "ExitNoMatch" =>
              \A a \in 1..Len(m_argv) : NamedContainers(m_argv[a]) = {}

\* C8: in a pack batch two different input files never share a stack path or
\* a header path
C8_DistinctOutputs ==
    (m_mode = "pack" /\ m_pc # "Start") =>
        \A i, j \in 1..Len(m_jobs) :
            m_inputs[i] # m_inputs[j] =>
                /\ PackStackPath(m_jobs[i].out) # PackStackPath(m_jobs[j].out)
                /\ PackHeaderPath(m_jobs[i].out) # PackHeaderPath(m_jobs[j].out)

C10_StoredIsSampleMinus128 ==
    s_pc = "Stored" =>
        /\ s_out[1] = s_u - 128
        /\ s_out[1] \in (0 - 128)..127
        /\ s_u < s_v => s_out[1] < s_out[2]

\* C10 witness: a sample below 128 (whose subtraction wraps) and one above it
\* have been stored
C10_Witness ==
    /\ s_pc = "Stored" /\ s_u < 128 /\ s_v >= 128
    /\ s_out[1] < 0 /\ s_out[2] >= 0

====
